---- MODULE Spec2Model ----
(***************************************************************************)
(* A model of conventional_commit_parser: the commit-type classifier       *)
(* (src/src/commit.rs), the error classifier (src/src/error.rs), the       *)
(* parse-tree walker and serializer (src/src/commit.rs, src/src/lib.rs).   *)
(* Text is a sequence of one-character strings.  grammar.pest is not part  *)
(* of the sources at hand; the grammar operators below follow spec.md      *)
(* sections 4.1 and 4.2 and the expectations of src/tests.                 *)
(***************************************************************************)
EXTENDS Integers, Sequences, FiniteSets, TLC

VARIABLES
    \* -- CommitType::from, called on two type tokens
    token1, token2, type1, type2,
    \* -- ParseError::from, called on one grammar failure
    pest_error, parse_error,
    \* -- parse, called on one commit message
    commit_message, pc, pest, pairs, inner, footerq, commit, result, stdout,
    message, reparsed,
    \* -- parse, called by several callers at once: the locals of each call
    calls

typeVars == <<token1, token2, type1, type2>>
errorVars == <<pest_error, parse_error>>
parseVars == <<commit_message, pc, pest, pairs, inner, footerq, commit, result,
               stdout, message, reparsed>>
callVars == <<calls>>
vars == <<typeVars, errorVars, parseVars, callVars>>

\* Option<T>: None is the empty sequence, Some(x) the sequence of x alone.
None == <<>>
Some(x) == <<x>>

(***************************************************************************)
(* Characters                                                              *)
(***************************************************************************)
AsciiUpper == <<"A","B","C","D","E","F","G","H","I","J","K","L","M",
                "N","O","P","Q","R","S","T","U","V","W","X","Y","Z">>
AsciiLower == <<"a","b","c","d","e","f","g","h","i","j","k","l","m",
                "n","o","p","q","r","s","t","u","v","w","x","y","z">>

\* u8::to_ascii_lowercase: 'A'..='Z' map to 'a'..='z', every other character
\* (non-ASCII letters included) is left as it is.
char_to_ascii_lowercase(c) ==
    IF \E i \in 1..Len(AsciiUpper) : AsciiUpper[i] = c
    THEN AsciiLower[CHOOSE i \in 1..Len(AsciiUpper) : AsciiUpper[i] = c]
    ELSE c

char_to_ascii_uppercase(c) ==
    IF \E i \in 1..Len(AsciiLower) : AsciiLower[i] = c
    THEN AsciiUpper[CHOOSE i \in 1..Len(AsciiLower) : AsciiLower[i] = c]
    ELSE c

\* str::to_ascii_lowercase
to_ascii_lowercase(s) == [i \in 1..Len(s) |-> char_to_ascii_lowercase(s[i])]

(***************************************************************************)
(* CommitType (commit.rs)                                                  *)
(***************************************************************************)
kw_feat == <<"f","e","a","t">>
kw_fix == <<"f","i","x">>
kw_chore == <<"c","h","o","r","e">>
kw_revert == <<"r","e","v","e","r","t">>
kw_perf == <<"p","e","r","f">>
kw_docs == <<"d","o","c","s">>
kw_style == <<"s","t","y","l","e">>
kw_refactor == <<"r","e","f","a","c","t","o","r">>
kw_test == <<"t","e","s","t">>
kw_build == <<"b","u","i","l","d">>
kw_ci == <<"c","i">>

Keywords == <<kw_feat, kw_fix, kw_chore, kw_revert, kw_perf, kw_docs, kw_style,
              kw_refactor, kw_test, kw_build, kw_ci>>

StandardTags == <<"Feature", "BugFix", "Chore", "Revert", "Performances",
                  "Documentation", "Style", "Refactor", "Test", "Build", "Ci">>

Standard(tag) == [tag |-> tag, key |-> <<>>]
Custom(key) == [tag |-> "Custom", key |-> key]

\* A slip this code could have: the token is matched as written.
CommitType_from_case_sensitive(commit_type) ==
    IF \E i \in 1..Len(Keywords) : Keywords[i] = commit_type
    THEN Standard(StandardTags[CHOOSE i \in 1..Len(Keywords) : Keywords[i] = commit_type])
    ELSE Custom(commit_type)

\* impl From<&str> for CommitType.  The match scrutinee is the lower-cased
\* token, and the catch-all arm binds `other` to that scrutinee.
CommitType_from(commit_type) ==
    LET lowered == to_ascii_lowercase(commit_type) IN
    CASE lowered = kw_feat -> Standard("Feature")
      [] lowered = kw_fix -> Standard("BugFix")
      [] lowered = kw_chore -> Standard("Chore")
      [] lowered = kw_revert -> Standard("Revert")
      [] lowered = kw_perf -> Standard("Performances")
      [] lowered = kw_docs -> Standard("Documentation")
      [] lowered = kw_style -> Standard("Style")
      [] lowered = kw_refactor -> Standard("Refactor")
      [] lowered = kw_test -> Standard("Test")
      [] lowered = kw_build -> Standard("Build")
      [] lowered = kw_ci -> Standard("Ci")
      [] OTHER -> LET other == lowered IN Custom(other)

\* A slip this code could have: a variant is written with a word that is not
\* its keyword.
CommitType_as_ref_other_word(t) ==
    CASE t.tag = "Feature" -> kw_feat
      [] t.tag = "BugFix" -> kw_fix
      [] t.tag = "Chore" -> kw_chore
      [] t.tag = "Revert" -> kw_revert
      [] t.tag = "Performances" -> kw_perf
      [] t.tag = "Documentation" -> <<"d", "o", "c">>
      [] t.tag = "Style" -> kw_style
      [] t.tag = "Refactor" -> kw_refactor
      [] t.tag = "Test" -> kw_test
      [] t.tag = "Build" -> kw_build
      [] t.tag = "Ci" -> kw_ci
      [] OTHER -> t.key

\* impl AsRef<str> for CommitType
CommitType_as_ref(t) ==
    CASE t.tag = "Feature" -> kw_feat
      [] t.tag = "BugFix" -> kw_fix
      [] t.tag = "Chore" -> kw_chore
      [] t.tag = "Revert" -> kw_revert
      [] t.tag = "Performances" -> kw_perf
      [] t.tag = "Documentation" -> kw_docs
      [] t.tag = "Style" -> kw_style
      [] t.tag = "Refactor" -> kw_refactor
      [] t.tag = "Test" -> kw_test
      [] t.tag = "Build" -> kw_build
      [] t.tag = "Ci" -> kw_ci
      [] OTHER -> t.key

(***************************************************************************)
(* ParseError (error.rs)                                                   *)
(***************************************************************************)
\* enum ParseErrorKind
ParseErrorKind == {"MissingSeparator", "MissingWhiteSpace", "UnexpectedParenthesis",
                   "UnexpectedWhitespaceOrNewLine", "MalformedScope",
                   "MalformedOrUnexpectedFooterSeparator",
                   "DescriptionStartingWithUppercase", "Other"}

\* A slip this code could have: the whitespace-terminal test moved to the front.
ParseErrorKind_of_reordered(e) ==
    IF e.variant = "ParsingError"
    THEN IF "whitespace_terminal" \in e.positives THEN "MissingWhiteSpace"
         ELSE IF "type_separator" \in e.positives THEN "MissingSeparator"
         ELSE IF "no_parenthesis" \in e.positives THEN "UnexpectedParenthesis"
         ELSE IF "no_whitespace" \in e.positives THEN "UnexpectedWhitespaceOrNewLine"
         ELSE IF "scope_content" \in e.positives THEN "MalformedScope"
         ELSE IF "token_separator" \in e.positives
              THEN "MalformedOrUnexpectedFooterSeparator"
         ELSE IF "summary_content" \in e.positives
              THEN "DescriptionStartingWithUppercase"
         ELSE "Other"
    ELSE "Other"

\* A slip this code could have: the summary-content arm names the scope kind.
ParseErrorKind_of_wrong_arm(e) ==
    IF e.variant = "ParsingError"
    THEN IF "type_separator" \in e.positives THEN "MissingSeparator"
         ELSE IF "no_parenthesis" \in e.positives THEN "UnexpectedParenthesis"
         ELSE IF "no_whitespace" \in e.positives THEN "UnexpectedWhitespaceOrNewLine"
         ELSE IF "whitespace_terminal" \in e.positives THEN "MissingWhiteSpace"
         ELSE IF "scope_content" \in e.positives THEN "MalformedScope"
         ELSE IF "token_separator" \in e.positives
              THEN "MalformedOrUnexpectedFooterSeparator"
         ELSE IF "summary_content" \in e.positives THEN "MalformedScope"
         ELSE "Other"
    ELSE "Other"

\* A slip this code could have: the kinds of the first and the fourth test
\* changed places.
ParseErrorKind_of_swapped(e) ==
    IF e.variant = "ParsingError"
    THEN IF "type_separator" \in e.positives THEN "MissingWhiteSpace"
         ELSE IF "no_parenthesis" \in e.positives THEN "UnexpectedParenthesis"
         ELSE IF "no_whitespace" \in e.positives THEN "UnexpectedWhitespaceOrNewLine"
         ELSE IF "whitespace_terminal" \in e.positives THEN "MissingSeparator"
         ELSE IF "scope_content" \in e.positives THEN "MalformedScope"
         ELSE IF "token_separator" \in e.positives
              THEN "MalformedOrUnexpectedFooterSeparator"
         ELSE IF "summary_content" \in e.positives
              THEN "DescriptionStartingWithUppercase"
         ELSE "Other"
    ELSE "Other"

\* A slip this code could have: the kinds of the second and the third test
\* changed places.
ParseErrorKind_of_scope_swapped(e) ==
    IF e.variant = "ParsingError"
    THEN IF "type_separator" \in e.positives THEN "MissingSeparator"
         ELSE IF "no_parenthesis" \in e.positives THEN "UnexpectedWhitespaceOrNewLine"
         ELSE IF "no_whitespace" \in e.positives THEN "UnexpectedParenthesis"
         ELSE IF "whitespace_terminal" \in e.positives THEN "MissingWhiteSpace"
         ELSE IF "scope_content" \in e.positives THEN "MalformedScope"
         ELSE IF "token_separator" \in e.positives
              THEN "MalformedOrUnexpectedFooterSeparator"
         ELSE IF "summary_content" \in e.positives
              THEN "DescriptionStartingWithUppercase"
         ELSE "Other"
    ELSE "Other"

\* A slip this code could have: the test for the footer separator is missing.
ParseErrorKind_of_no_footer_arm(e) ==
    IF e.variant = "ParsingError"
    THEN IF "type_separator" \in e.positives THEN "MissingSeparator"
         ELSE IF "no_parenthesis" \in e.positives THEN "UnexpectedParenthesis"
         ELSE IF "no_whitespace" \in e.positives THEN "UnexpectedWhitespaceOrNewLine"
         ELSE IF "whitespace_terminal" \in e.positives THEN "MissingWhiteSpace"
         ELSE IF "scope_content" \in e.positives THEN "MalformedScope"
         ELSE IF "summary_content" \in e.positives
              THEN "DescriptionStartingWithUppercase"
         ELSE "Other"
    ELSE "Other"

\* The `let kind = match pest_error.variant { ... }` of From<PestError<Rule>>.
ParseErrorKind_of(e) ==
    IF e.variant = "ParsingError"
    THEN IF "type_separator" \in e.positives THEN "MissingSeparator"
         ELSE IF "no_parenthesis" \in e.positives THEN "UnexpectedParenthesis"
         ELSE IF "no_whitespace" \in e.positives THEN "UnexpectedWhitespaceOrNewLine"
         ELSE IF "whitespace_terminal" \in e.positives THEN "MissingWhiteSpace"
         ELSE IF "scope_content" \in e.positives THEN "MalformedScope"
         ELSE IF "token_separator" \in e.positives
              THEN "MalformedOrUnexpectedFooterSeparator"
         ELSE IF "summary_content" \in e.positives
              THEN "DescriptionStartingWithUppercase"
         ELSE "Other"
    ELSE "Other"

\* A slip this code could have: the failure is stored without its position.
ParseError_from_resets_position(e) ==
    [inner |-> [e EXCEPT !.pos = 0], kind |-> ParseErrorKind_of(e)]

\* impl From<PestError<Rule>> for ParseError
ParseError_from(e) == [inner |-> e, kind |-> ParseErrorKind_of(e)]

\* pest::error::Error<Rule>: the variant, the expected rules (positives, a
\* ParsingError's), the message (a CustomError's) and the position.
ParsingError(positives, pos) ==
    [variant |-> "ParsingError", positives |-> positives, message |-> "", pos |-> pos]
CustomError(msg, pos) ==
    [variant |-> "CustomError", positives |-> {}, message |-> msg, pos |-> pos]

(***************************************************************************)
(* Grammar (grammar.pest, spec.md 4.1 and 4.2).  Positions are 1-based     *)
(* character indices; the position past the last character is the end of   *)
(* input.  A pair is a node of the match tree: its rule, the text it       *)
(* spans, where the span starts, and its inner pairs.                      *)
(***************************************************************************)
NL == "\n"
CR == "\r"

\* The character at p; the empty string stands for the end of input.
At(text, p) == IF p >= 1 /\ p <= Len(text) THEN text[p] ELSE ""

\* The text of the span [from, to).
Slice(text, from, to) == SubSeq(text, from, to - 1)

Pair(rule, text, from, to, in) ==
    [rule |-> rule, str |-> Slice(text, from, to), start |-> from, inner |-> in]

IsSpace(c) == c \in {" ", "\t"}
IsLineBreak(c) == c \in {NL, CR}

\* pest's NEWLINE: "\n" | "\r\n" | "\r".  The length matched at p, 0 for none.
NewlineLen(text, p) ==
    IF At(text, p) = CR /\ At(text, p + 1) = NL THEN 2
    ELSE IF IsLineBreak(At(text, p)) THEN 1
    ELSE 0

\* The position after NEWLINE* from p.
RECURSIVE SkipNewlines(_, _)
SkipNewlines(text, p) ==
    IF NewlineLen(text, p) = 0 THEN p
    ELSE SkipNewlines(text, p + NewlineLen(text, p))

\* commit-type: one or more characters that are not whitespace, `(`, `:`; the
\* marker `!` ends it too ("feat!: x" has type feat, tests/specification.rs:67).
CommitTypeChar(c) ==
    c # "" /\ ~IsSpace(c) /\ ~IsLineBreak(c) /\ c \notin {"(", ":", "!"}

RECURSIVE CommitTypeEnd(_, _)
CommitTypeEnd(text, p) ==
    IF CommitTypeChar(At(text, p)) THEN CommitTypeEnd(text, p + 1) ELSE p

\* scope-content: no whitespace, no newline, no parenthesis.
ScopeContentChar(c) ==
    c # "" /\ ~IsSpace(c) /\ ~IsLineBreak(c) /\ c \notin {"(", ")"}

RECURSIVE ScopeContentEnd(_, _)
ScopeContentEnd(text, p) ==
    IF ScopeContentChar(At(text, p)) THEN ScopeContentEnd(text, p + 1) ELSE p

\* summary-content: the rest of the line.
RECURSIVE LineEnd(_, _)
LineEnd(text, p) ==
    IF At(text, p) # "" /\ ~IsLineBreak(At(text, p)) THEN LineEnd(text, p + 1) ELSE p

\* footer-token: a word of non-whitespace characters (hyphens join its parts).
FooterTokenChar(c) == c # "" /\ ~IsSpace(c) /\ ~IsLineBreak(c) /\ c # ":"

RECURSIVE FooterTokenEnd(_, _)
FooterTokenEnd(text, p) ==
    IF FooterTokenChar(At(text, p)) THEN FooterTokenEnd(text, p + 1) ELSE p

BREAKING_CHANGE == <<"B","R","E","A","K","I","N","G"," ","C","H","A","N","G","E">>
BREAKING_CHANGE_DASH == <<"B","R","E","A","K","I","N","G","-","C","H","A","N","G","E">>

\* footer-separator at p: ": " | " #" | ":" NEWLINE; "" when none is there.
SeparatorAt(text, p) ==
    IF At(text, p) = ":" /\ At(text, p + 1) = " " THEN "Colon"
    ELSE IF At(text, p) = " " /\ At(text, p + 1) = "#" THEN "Hash"
    ELSE IF At(text, p) = ":" /\ NewlineLen(text, p + 1) > 0 THEN "ColonWithNewLine"
    ELSE ""

SeparatorLen(text, p) ==
    IF SeparatorAt(text, p) = "ColonWithNewLine" THEN 1 + NewlineLen(text, p + 1)
    ELSE IF SeparatorAt(text, p) = "" THEN 0
    ELSE 2

\* Where the footer token starting at p ends: the literal BREAKING CHANGE when
\* a separator follows it, a word otherwise.
TokenEndAt(text, p) ==
    LET q == p + Len(BREAKING_CHANGE) IN
    IF q - 1 <= Len(text) /\ Slice(text, p, q) = BREAKING_CHANGE
       /\ SeparatorAt(text, q) # ""
    THEN q
    ELSE FooterTokenEnd(text, p)

\* A footer token followed by a footer separator starts at p.
FooterStartAt(text, p) ==
    LET e == TokenEndAt(text, p) IN e > p /\ SeparatorAt(text, e) # ""

\* Free text from p (a body, a footer's content) ends where newlines are
\* followed by a footer token and separator, or at the end of input.
RECURSIVE ContentEnd(_, _)
ContentEnd(text, p) ==
    IF p > Len(text) THEN p
    ELSE IF NewlineLen(text, p) > 0 /\ FooterStartAt(text, SkipNewlines(text, p)) THEN p
    ELSE ContentEnd(text, p + 1)

\* footer := footer-token footer-separator footer-content, one operator for
\* each part matched.  After a colon and a newline the content starts a line:
\* a footer starting right there ends it.
footer_content_matched(text, p, tEnd, cStart, cEnd) ==
    Pair("footer", text, p, cEnd,
         << Pair("footer_token", text, p, tEnd, <<>>),
            Pair("token_separator", text, tEnd, cStart, <<>>),
            Pair("footer_content", text, cStart, cEnd, <<>>) >>)

footer_separator_matched(text, p, tEnd, kind, cStart) ==
    footer_content_matched(text, p, tEnd, cStart,
        IF kind = "ColonWithNewLine" /\ FooterStartAt(text, cStart)
        THEN cStart
        ELSE ContentEnd(text, cStart))

footer_token_matched(text, p, tEnd) ==
    footer_separator_matched(text, p, tEnd, SeparatorAt(text, tEnd),
                             tEnd + SeparatorLen(text, tEnd))

footer_rule(text, p) == footer_token_matched(text, p, TokenEndAt(text, p))

PairEnd(pair) == pair.start + Len(pair.str)

\* footer-block := one or more footers, each beginning at a line start.
RECURSIVE FooterPairs(_, _)
FooterPairs(text, p) ==
    IF p > Len(text) THEN <<>>
    ELSE LET f == footer_rule(text, p) IN
         <<f>> \o FooterPairs(text, SkipNewlines(text, PairEnd(f)))

footers_rule(text, p) ==
    Pair("footers", text, p, Len(text) + 1, FooterPairs(text, p))

Failure(positives, pos) == [ok |-> FALSE, error |-> ParsingError(positives, pos)]

\* summary := commit-type scope? breaking-marker type-separator
\*            whitespace-terminal summary-content, one operator for each part
\* matched; tEnd, afterScope, sepPos and cEnd are where the type, the scope,
\* the marker and the content end.
summary_content_matched(text, tEnd, scope, afterScope, sepPos, cEnd) ==
    IF cEnd = sepPos + 2 THEN Failure({"summary_content"}, cEnd)
    ELSE [ok |-> TRUE,
          error |-> ParsingError({}, 0),
          pair |-> Pair("summary", text, 1, cEnd,
                        << Pair("commit_type", text, 1, tEnd, <<>>) >>
                        \o scope
                        \o << Pair("breaking_change_mark", text, afterScope, sepPos, <<>>),
                              Pair("type_separator", text, sepPos, sepPos + 1, <<>>),
                              Pair("whitespace_terminal", text, sepPos + 1, sepPos + 2, <<>>),
                              Pair("summary_content", text, sepPos + 2, cEnd, <<>>) >>)]

summary_mark_matched(text, tEnd, scope, afterScope, sepPos) ==
    IF At(text, sepPos) # ":"
    THEN Failure(IF scope # <<>> \/ sepPos > afterScope THEN {"type_separator"}
                 ELSE {"scope", "type_separator"}, sepPos)
    ELSE IF At(text, sepPos + 1) # " " THEN Failure({"whitespace_terminal"}, sepPos + 1)
    ELSE summary_content_matched(text, tEnd, scope, afterScope, sepPos,
                                 LineEnd(text, sepPos + 2))

summary_scope_matched(text, tEnd, scope, afterScope) ==
    summary_mark_matched(text, tEnd, scope, afterScope,
                         IF At(text, afterScope) = "!" THEN afterScope + 1 ELSE afterScope)

summary_scope_opened(text, tEnd, sEnd) ==
    IF At(text, sEnd) = "(" THEN Failure({"no_parenthesis"}, sEnd)
    ELSE IF At(text, sEnd) = "" THEN Failure({"scope_content"}, sEnd)
    ELSE IF At(text, sEnd) # ")" THEN Failure({"no_whitespace"}, sEnd)
    ELSE summary_scope_matched(text, tEnd,
             << Pair("scope", text, tEnd, sEnd + 1,
                     << Pair("scope_content", text, tEnd + 1, sEnd, <<>>) >>) >>,
             sEnd + 1)

summary_type_matched(text, tEnd) ==
    IF tEnd = 1 THEN Failure({"commit_type"}, 1)
    ELSE IF At(text, tEnd) = "("
         THEN summary_scope_opened(text, tEnd, ScopeContentEnd(text, tEnd + 1))
         ELSE summary_scope_matched(text, tEnd, <<>>, tEnd)

summary_rule(text) == summary_type_matched(text, CommitTypeEnd(text, 1))

\* message := summary (NEWLINE+ body (NEWLINE+ footer-block)?)? EOI, one
\* operator for each part matched; p, q, bEnd and fStart are where the
\* summary ends, the body starts and ends, and the footers start.  The body
\* is empty when footers directly follow the summary.
message_body_matched(text, s, p, q, bEnd, fStart) ==
    [ok |-> TRUE, error |-> s.error,
     pair |-> Pair("message", text, 1, Len(text) + 1,
                   <<s.pair>>
                   \o (IF p > Len(text) THEN <<>>
                       ELSE << Pair("body", text, q, bEnd, <<>>) >>)
                   \o (IF p > Len(text) \/ fStart > Len(text) THEN <<>>
                       ELSE << footers_rule(text, fStart) >>)
                   \o << Pair("EOI", text, Len(text) + 1, Len(text) + 1, <<>>) >>)]

message_body_started(text, s, p, q, bEnd) ==
    message_body_matched(text, s, p, q, bEnd, SkipNewlines(text, bEnd))

message_summary_ended(text, s, p, q) ==
    message_body_started(text, s, p, q,
                         IF FooterStartAt(text, q) THEN q ELSE ContentEnd(text, q))

message_summary_matched(text, s) ==
    IF ~s.ok
    THEN [ok |-> FALSE, error |-> s.error, pair |-> Pair("message", text, 1, 1, <<>>)]
    ELSE message_summary_ended(text, s, PairEnd(s.pair),
                               SkipNewlines(text, PairEnd(s.pair)))

message_rule(text) == message_summary_matched(text, summary_rule(text))

\* ConventionalCommitParser::parse(Rule::message, text)
ConventionalCommitParser_parse(text) == message_rule(text)

\* Between empty parentheses the scope pair holds an empty scope_content
\* pair or no inner pair: the match trees the text may give, either way.
HasEmptyScope(r) ==
    /\ r.ok /\ Len(r.pair.inner[1].inner) >= 2
    /\ r.pair.inner[1].inner[2].rule = "scope"
    /\ r.pair.inner[1].inner[2].inner[1].str = <<>>

WithoutScopeContent(r) == [r EXCEPT !.pair.inner[1].inner[2].inner = <<>>]

MatchTreesOf(r) == IF HasEmptyScope(r) THEN {r, WithoutScopeContent(r)} ELSE {r}

MatchTrees(text) == MatchTreesOf(ConventionalCommitParser_parse(text))

(***************************************************************************)
(* Footer and ConventionalCommit (commit.rs)                               *)
(***************************************************************************)
\* A slip this code could have: the content is read from the separator pair.
Footer_from_separator_as_content(pair) ==
    [token |-> pair.inner[1].str, content |-> pair.inner[2].str]

\* A slip this code could have: the content is cut at its first line break.
Footer_from_first_line(pair) ==
    [token |-> pair.inner[1].str,
     content |-> SubSeq(pair.inner[3].str, 1, LineEnd(pair.inner[3].str, 1) - 1)]

\* impl From<Pair<'_, Rule>> for Footer: the struct has the fields token and
\* content; the separator pair is read and dropped.
Footer_from(pair) ==
    LET token == pair.inner[1].str
        _separator == pair.inner[2]
        content == pair.inner[3].str
    IN [token |-> token, content |-> content]

\* A slip this code could have: only the spelling with a space is known.
Footer_is_breaking_change_one_spelling(f) == f.token = BREAKING_CHANGE

\* Footer::is_breaking_change
Footer_is_breaking_change(f) ==
    f.token = BREAKING_CHANGE \/ f.token = BREAKING_CHANGE_DASH

\* impl Default for ConventionalCommit
Default ==
    [commit_type |-> Standard("Feature"), scope |-> None, body |-> None,
     footers |-> <<>>, summary |-> <<>>, is_breaking_change |-> FALSE]

\* ConventionalCommit::set_breaking_change
set_breaking_change(c, pair) ==
    IF pair.str # <<>> THEN [c EXCEPT !.is_breaking_change = TRUE] ELSE c

\* ConventionalCommit::set_summary_content
set_summary_content(c, pair) == [c EXCEPT !.summary = pair.str]

\* A slip this code could have: the inner text is stored without the test
\* for emptiness.
set_scope_keeps_empty(c, pair) ==
    IF pair.inner # <<>>
    THEN [c EXCEPT !.scope = Some(pair.inner[1].str)]
    ELSE c

\* ConventionalCommit::set_scope
set_scope(c, pair) ==
    IF pair.inner # <<>>
    THEN LET scope == pair.inner[1].str IN
         IF scope # <<>> THEN [c EXCEPT !.scope = Some(scope)] ELSE c
    ELSE c

\* A slip this code could have: the commit keeps the type it was initialised
\* with.
set_commit_type_keeps_default(c, pair) == c

\* ConventionalCommit::set_commit_type
set_commit_type(c, pair) == [c EXCEPT !.commit_type = CommitType_from(pair.str)]

\* A slip this code could have: the body is cut at its first line break.
set_commit_body_first_line(c, pair) ==
    IF pair.str # <<>>
    THEN [c EXCEPT !.body = Some(SubSeq(pair.str, 1, LineEnd(pair.str, 1) - 1))]
    ELSE c

\* A slip this code could have: the body is stored without the test for
\* emptiness.
set_commit_body_keeps_empty(c, pair) == [c EXCEPT !.body = Some(pair.str)]

\* ConventionalCommit::set_commit_body
set_commit_body(c, pair) ==
    IF pair.str # <<>> THEN [c EXCEPT !.body = Some(pair.str)] ELSE c

\* A slip this code could have: a token already in the list is not pushed again.
set_footer_dedup(c, footer) ==
    LET f == Footer_from(footer)
        flagged == IF Footer_is_breaking_change(f)
                   THEN [c EXCEPT !.is_breaking_change = TRUE] ELSE c
    IN IF \E i \in 1..Len(c.footers) : c.footers[i].token = f.token
       THEN flagged
       ELSE [flagged EXCEPT !.footers = Append(@, f)]

\* A slip this code could have: the flag is assigned from each footer, not
\* only raised by it.
set_footer_assigns_flag(c, footer) ==
    [c EXCEPT !.is_breaking_change = Footer_is_breaking_change(Footer_from(footer)),
              !.footers = Append(@, Footer_from(footer))]

\* ConventionalCommit::set_footer
set_footer(c, footer) ==
    LET f == Footer_from(footer)
        flagged == IF Footer_is_breaking_change(f)
                   THEN [c EXCEPT !.is_breaking_change = TRUE] ELSE c
    IN [flagged EXCEPT !.footers = Append(@, f)]

\* ConventionalCommit::set_footers: `for footer in pair.into_inner()`
RECURSIVE set_footer_each(_, _)
set_footer_each(c, footers) ==
    IF footers = <<>> THEN c
    ELSE set_footer_each(set_footer(c, Head(footers)), Tail(footers))

set_footers(c, pair) == set_footer_each(c, pair.inner)

\* A slip this code could have: the footers follow without the blank line and
\* separated from their content by the colon alone.
RECURSIVE footers_to_string_no_space(_)
footers_to_string_no_space(footers) ==
    IF footers = <<>> THEN <<>>
    ELSE <<NL>> \o Head(footers).token \o <<":">> \o Head(footers).content
         \o footers_to_string_no_space(Tail(footers))

\* to_string's `self.footers.iter().for_each(...)`: "\n{token}: {content}"
RECURSIVE footers_to_string(_)
footers_to_string(footers) ==
    IF footers = <<>> THEN <<>>
    ELSE <<NL>> \o Head(footers).token \o <<":", " ">> \o Head(footers).content
         \o footers_to_string(Tail(footers))

\* A slip this code could have: the marker is written for every breaking
\* commit, a breaking-change footer or not.
to_string_marker_always(c) ==
    CommitType_as_ref(c.commit_type)
    \o (IF c.scope # None THEN <<"(">> \o c.scope[1] \o <<")">> ELSE <<>>)
    \o (IF c.is_breaking_change THEN <<"!">> ELSE <<>>)
    \o <<":", " ">> \o c.summary
    \o (IF c.body # None THEN <<NL, NL>> \o c.body[1] ELSE <<>>)
    \o (IF c.footers # <<>> THEN <<NL>> ELSE <<>>)
    \o footers_to_string(c.footers)

\* impl ToString for ConventionalCommit
to_string(c) ==
    LET has_breaking_change_footer ==
            \E i \in 1..Len(c.footers) : Footer_is_breaking_change(c.footers[i])
    IN CommitType_as_ref(c.commit_type)
       \o (IF c.scope # None THEN <<"(">> \o c.scope[1] \o <<")">> ELSE <<>>)
       \o (IF c.is_breaking_change /\ ~has_breaking_change_footer THEN <<"!">> ELSE <<>>)
       \o <<":", " ">> \o c.summary
       \o (IF c.body # None THEN <<NL, NL>> \o c.body[1] ELSE <<>>)
       \o (IF c.footers # <<>> THEN <<NL>> ELSE <<>>)
       \o footers_to_string(c.footers)

(***************************************************************************)
(* parse (lib.rs)                                                          *)
(***************************************************************************)
\* Result<ConventionalCommit, ParseError>
NoResult == [tag |-> "None", value |-> None, error |-> None]
Ok(c) == [tag |-> "Ok", value |-> Some(c), error |-> None]
Err(e) == [tag |-> "Err", value |-> None, error |-> Some(e)]

\* A slip this code could have: a failed match is answered with the default
\* commit instead of the error.
QuestionMark_recovers(r) ==
    IF r.ok THEN [returns |-> FALSE, ret |-> NoResult]
    ELSE [returns |-> TRUE, ret |-> Ok(Default)]

\* The `?` of lib.rs:24: a failed match returns Err(ParseError::from(e)) at once.
QuestionMark(r) ==
    IF r.ok THEN [returns |-> FALSE, ret |-> NoResult]
    ELSE [returns |-> TRUE, ret |-> Err(ParseError_from(r.error))]

SummaryRules == {"commit_type", "scope", "summary_content", "breaking_change_mark"}
MessageRules == {"summary", "body", "footers"}

\* One turn of the loop over the summary's inner pairs (lib.rs:33-41); what
\* println! writes is not part of the commit.
visit_summary_pair(c, pair) ==
    CASE pair.rule = "commit_type" -> set_commit_type(c, pair)
      [] pair.rule = "scope" -> set_scope(c, pair)
      [] pair.rule = "summary_content" -> set_summary_content(c, pair)
      [] pair.rule = "breaking_change_mark" -> set_breaking_change(c, pair)
      [] OTHER -> c

RECURSIVE visit_summary(_, _)
visit_summary(c, ps) ==
    IF ps = <<>> THEN c
    ELSE visit_summary(visit_summary_pair(c, Head(ps)), Tail(ps))

\* One turn of the loop over the message's inner pairs (lib.rs:30-47).
visit_pair(c, pair) ==
    CASE pair.rule = "summary" -> visit_summary(c, pair.inner)
      [] pair.rule = "body" -> set_commit_body(c, pair)
      [] pair.rule = "footers" -> set_footers(c, pair)
      [] OTHER -> c

RECURSIVE visit_pairs(_, _)
visit_pairs(c, ps) ==
    IF ps = <<>> THEN c
    ELSE visit_pairs(visit_pair(c, Head(ps)), Tail(ps))

\* pub fn parse, as one call.
parse(text) ==
    LET r == ConventionalCommitParser_parse(text)
        q == QuestionMark(r)
    IN IF q.returns THEN q.ret ELSE Ok(visit_pairs(Default, r.pair.inner))

(***************************************************************************)
(* parse_body (spec.md 6, tests/body.rs): the body rule alone on a text.   *)
(***************************************************************************)
IsWhitespaceOnly(text) == \A i \in DOMAIN text : IsSpace(text[i]) \/ IsLineBreak(text[i])

\* The text is free text: no line of it, the first included, begins a footer
\* token followed by a separator.
IsFreeText(text) ==
    /\ ~FooterStartAt(text, 1)
    /\ \A p \in 2..Len(text) : IsLineBreak(text[p - 1]) => ~FooterStartAt(text, p)

BodyMatched(text, to) ==
    [ok |-> TRUE, error |-> ParsingError({}, 0), pair |-> Pair("body", text, 1, to, <<>>)]

\* The matches of the body rule.  A text that begins with footer syntax is
\* no body: a footer separator is not expected there.  Free text is matched
\* whole.  For text with footer syntax on a later line the specification does
\* not say whether the match stops there or fails there: either.
BodyMatches(text) ==
    IF FooterStartAt(text, 1) THEN { Failure({"token_separator"}, TokenEndAt(text, 1)) }
    ELSE IF IsFreeText(text) THEN { BodyMatched(text, Len(text) + 1) }
    ELSE { BodyMatched(text, ContentEnd(text, 1)),
           Failure({"token_separator"},
                   TokenEndAt(text, SkipNewlines(text, ContentEnd(text, 1)))) }

\* parse_body on a match: the failure classified, or the body, absent when
\* the text is empty or whitespace only.
parse_body_matched(r) ==
    IF QuestionMark(r).returns THEN QuestionMark(r).ret
    ELSE Ok(IF IsWhitespaceOnly(r.pair.str) THEN None ELSE Some(r.pair.str))

(***************************************************************************)
(* parse_summary (spec.md 6, tests/summary.rs): the summary rule alone on  *)
(* a text, then ConventionalCommit::set_summary on a default commit.       *)
(***************************************************************************)
\* A slip this code could have: the arm for the scope is missing.
set_summary_pair_no_scope(c, pair) ==
    CASE pair.rule = "commit_type" -> set_commit_type(c, pair)
      [] pair.rule = "summary_content" -> set_summary_content(c, pair)
      [] pair.rule = "breaking_change_mark" -> set_breaking_change(c, pair)
      [] OTHER -> c

\* One turn of the loop of ConventionalCommit::set_summary.
set_summary_pair(c, pair) ==
    CASE pair.rule = "commit_type" -> set_commit_type(c, pair)
      [] pair.rule = "scope" -> set_scope(c, pair)
      [] pair.rule = "summary_content" -> set_summary_content(c, pair)
      [] pair.rule = "breaking_change_mark" -> set_breaking_change(c, pair)
      [] OTHER -> c

RECURSIVE set_summary_each(_, _)
set_summary_each(c, ps) ==
    IF ps = <<>> THEN c
    ELSE set_summary_each(set_summary_pair(c, Head(ps)), Tail(ps))

\* ConventionalCommit::set_summary
set_summary(c, pair) == set_summary_each(c, pair.inner)

\* The matches of the summary rule on a text of one line: the line is
\* matched to its end, and a scope with nothing between its parentheses has
\* an inner pair or none.
SummaryHasEmptyScope(r) ==
    /\ r.ok /\ Len(r.pair.inner) >= 2
    /\ r.pair.inner[2].rule = "scope"
    /\ r.pair.inner[2].inner[1].str = <<>>

SummaryTreesOf(r) ==
    IF SummaryHasEmptyScope(r) THEN {r, [r EXCEPT !.pair.inner[2].inner = <<>>]} ELSE {r}

SummaryMatches(text) == SummaryTreesOf(summary_rule(text))

parse_summary_matched(r) ==
    IF QuestionMark(r).returns THEN QuestionMark(r).ret
    ELSE Ok(set_summary(Default, r.pair))

(***************************************************************************)
(* Inputs                                                                  *)
(***************************************************************************)
\* The most lines after the summary line of an input message.
MaxLines == 2
\* The most upper-case letters in an input type token.
MaxUpper == 2
\* The largest failure position of an input grammar failure.
MaxErrPos == 1

\* Summary lines the grammar accepts.
GoodSummaries ==
    { kw_feat \o <<":", " ", "x">>,                              \* feat: x
      <<"F","i","x","(","s",")","!",":"," ","y"," ","z">>,       \* Fix(s)!: y z
      <<"w","I","p","!",":"," ","x">>,                           \* wIp!: x
      kw_fix \o <<"(", ")", ":", " ", "x">> }                    \* fix(): x

\* Summary lines the grammar rejects.
BadSummaries ==
    { kw_feat \o <<" ", "x">>,                                   \* feat x
      kw_feat \o <<":", "x">>,                                   \* feat:x
      kw_feat \o <<"(","s",")","!",":","x">>,                    \* feat(s)!:x
      kw_fix \o <<"(","(","s",")",":"," ","x">>,                 \* fix((s): x
      kw_fix \o <<"(","a"," ","b",")",":"," ","x">>,             \* fix(a b): x
      kw_fix \o <<"(","s">>,                                     \* fix(s
      kw_fix \o <<"(","s",")","x">>,                             \* fix(s)x
      <<":", " ", "x">>,                                         \* : x
      kw_feat \o <<":", " ">>,                                   \* feat:
      <<"w","i","p","!"," ","x">>,                               \* wip! x
      kw_fix \o <<"!", ":">> }                                   \* fix!:

\* Lines that may follow the summary line.
Lines ==
    { <<"b"," ","c",":"," ","d">>,                               \* b c: d
      <<"a",":"," ","v">>,                                       \* a: v
      <<"a"," ","#","w">>,                                       \* a #w
      <<"k",":">>,                                               \* k:
      <<"u",":",CR,"z">>,                                        \* u:<CR>z
      BREAKING_CHANGE \o <<":"," ","m">>,                        \* BREAKING CHANGE: m
      BREAKING_CHANGE_DASH \o <<":"," ","m">>,                   \* BREAKING-CHANGE: m
      to_ascii_lowercase(BREAKING_CHANGE) \o <<":"," ","o">>,    \* breaking change: o
      to_ascii_lowercase(BREAKING_CHANGE_DASH) \o <<" ","#","o">>, \* breaking-change #o
      <<" ","i",":"," ","j">> }                                  \* (indented) i: j

LineBreaks == { <<NL>>, <<NL, NL>> }

\* The texts of at most n lines, each after one or two newlines.
RECURSIVE Rests(_)
Rests(n) ==
    IF n = 0 THEN { <<>> }
    ELSE { <<>> } \cup { br \o l \o r : br \in LineBreaks, l \in Lines, r \in Rests(n - 1) }

\* A few texts every summary line is followed by.
FewRests ==
    { <<>>,
      <<NL, NL, "b", " ", "c">>,
      <<NL, NL, "a", ":", " ", "v">>,
      <<NL, "b", NL, NL>> \o BREAKING_CHANGE \o <<":", " ", "m">>,
      <<NL, NL, "a", ":", " ", "v", NL, " ", "i", ":", " ", "j", NL, "a", " ", "#", "w">>,
      <<NL, NL, "k", ":", NL, "-", " ", "d", ":", " ", "e", NL, " ", "i", ":", " ", "j",
        NL, NL, "a", ":", " ", "v">> }

Messages ==
    { s \o r : s \in GoodSummaries \cup BadSummaries, r \in FewRests }
    \cup { kw_feat \o <<":", " ", "x">> \o r : r \in Rests(MaxLines) }

\* The texts given to parse_body: at most MaxLines lines, empty lines and
\* lines of whitespace among them.
BodyLines == Lines \cup { <<>>, <<" ">>, <<"b">> }

RECURSIVE BodyTextsOf(_)
BodyTextsOf(n) ==
    IF n <= 1 THEN BodyLines
    ELSE BodyTextsOf(n - 1)
         \cup { t \o <<NL>> \o l : t \in BodyTextsOf(n - 1), l \in BodyLines }

BodyTexts == BodyTextsOf(MaxLines)

\* The summary lines given to parse_summary.
SummaryTypes ==
    { Keywords[i] : i \in 1..Len(Keywords) } \cup { <<"w","I","p">>, <<"F","i","x">> }

SummaryLines ==
    { t \o sc \o mk \o <<":", " ">> \o c :
        t \in SummaryTypes,
        sc \in { <<>>, <<"(", "s", ")">>, <<"(", ")">> },
        mk \in { <<>>, <<"!">> },
        c \in { <<"x">>, <<"y", " ", "z">> } }
    \cup GoodSummaries \cup BadSummaries

\* The callers that call parse at once, and the texts they call it with.
Callers == {1, 2}

CallSummaries ==
    { kw_feat \o <<":", " ", "x">>,                              \* feat: x
      <<"F","i","x","(","s",")","!",":"," ","y"," ","z">>,       \* Fix(s)!: y z
      kw_fix \o <<"(", ")", ":", " ", "x">>,                     \* fix(): x
      kw_feat \o <<":", "x">> }                                  \* feat:x

CallRests ==
    { <<>>,
      <<NL, NL, "b", " ", "c">>,
      <<NL, NL, "a", ":", " ", "v">>,
      <<NL, "b", NL, NL>> \o BREAKING_CHANGE \o <<":", " ", "m">> }

CallTexts == { s \o r : s \in CallSummaries, r \in CallRests }

\* The commits given to to_string: the fields of ConventionalCommit are
\* public, so a caller may build any of them.
MaxFooters == 2

SomeFooters ==
    { [token |-> <<"a">>, content |-> <<"v">>],
      [token |-> BREAKING_CHANGE, content |-> <<"m">>],
      [token |-> BREAKING_CHANGE_DASH, content |-> <<"m">>],
      [token |-> to_ascii_lowercase(BREAKING_CHANGE), content |-> <<"o">>] }

FooterLists == UNION { [1..n -> SomeFooters] : n \in 0..MaxFooters }

Commits ==
    [commit_type : {Standard("Feature"), Standard("Chore"), Custom(<<"w", "i", "p">>)},
     scope : {None, Some(<<"s">>)},
     summary : {<<"x">>},
     body : {None, Some(<<"b", " ", "c", NL, "d">>)},
     footers : FooterLists,
     is_breaking_change : BOOLEAN]

\* The type tokens: the keywords with at most MaxUpper letters in upper case,
\* and tokens that are no keyword.
CaseVariants(kw) ==
    { [i \in 1..Len(kw) |-> IF i \in U THEN char_to_ascii_uppercase(kw[i]) ELSE kw[i]] :
        U \in { V \in SUBSET (1..Len(kw)) : Cardinality(V) <= MaxUpper } }

OtherTokens ==
    { <<"w","i","p">>, <<"W","i","p">>, <<"W","I","P">>, <<"f","e","a","t","s">>,
      <<"F","i">>, <<"d","o","c">>, <<"é","t","é">>, <<"É","t","é">> }

TypeTokens ==
    UNION { CaseVariants(Keywords[i]) : i \in 1..Len(Keywords) } \cup OtherTokens

\* The rules a grammar failure may expect.
Rules == {"type_separator", "no_parenthesis", "no_whitespace", "whitespace_terminal",
          "scope_content", "token_separator", "summary_content", "commit_type",
          "scope", "body", "footers"}

PestErrors ==
    { ParsingError(ps, pos) : ps \in SUBSET Rules, pos \in 0..MaxErrPos }
    \cup { CustomError(m, pos) : m \in {"custom", "type_separator"}, pos \in 0..MaxErrPos }

(***************************************************************************)
(* CommitType::from on two tokens                                          *)
(***************************************************************************)
IdleType == token1 = <<>> /\ token2 = <<>> /\ type1 = None /\ type2 = None
IdleError == pest_error = ParsingError({}, 0) /\ parse_error = None
IdleParse ==
    /\ commit_message = <<>> /\ pc = "idle" /\ pest = None /\ pairs = <<>>
    /\ inner = <<>> /\ footerq = <<>> /\ commit = None /\ result = NoResult
    /\ stdout = <<>> /\ message = None /\ reparsed = NoResult

\* No caller has called parse.
IdleCalls == calls = <<>>

InitType ==
    /\ token1 \in TypeTokens /\ token2 \in TypeTokens
    /\ type1 = None /\ type2 = None
    /\ IdleError /\ IdleParse
    /\ IdleCalls

FromFirst ==
    /\ type1 = None
    /\ type1' = Some(CommitType_from(token1))
    /\ UNCHANGED <<token1, token2, type2, errorVars, parseVars, callVars>>

FromSecond ==
    /\ type1 # None /\ type2 = None
    /\ type2' = Some(CommitType_from(token2))
    /\ UNCHANGED <<token1, token2, type1, errorVars, parseVars, callVars>>

NextType == FromFirst \/ FromSecond

SpecType == InitType /\ [][NextType]_vars

(***************************************************************************)
(* ParseError::from on one grammar failure                                 *)
(***************************************************************************)
InitError ==
    /\ pest_error \in PestErrors /\ parse_error = None
    /\ IdleType /\ IdleParse
    /\ IdleCalls

From ==
    /\ parse_error = None
    /\ parse_error' = Some(ParseError_from(pest_error))
    /\ UNCHANGED <<pest_error, typeVars, parseVars, callVars>>

NextError == From

SpecError == InitError /\ [][NextError]_vars

(***************************************************************************)
(* parse on one commit message, then to_string and parse again             *)
(***************************************************************************)
Init ==
    /\ commit_message \in Messages
    /\ pc = "start" /\ pest = None /\ pairs = <<>> /\ inner = <<>> /\ footerq = <<>>
    /\ commit = None /\ result = NoResult /\ stdout = <<>>
    /\ message = None /\ reparsed = NoResult
    /\ IdleType /\ IdleError
    /\ IdleCalls

\* lib.rs:24-28: the grammar match, the early return, the default commit.
Match ==
    /\ pc = "start"
    /\ \E r \in MatchTrees(commit_message) :
          /\ pest' = Some(r)
          /\ IF QuestionMark(r).returns
             THEN /\ result' = QuestionMark(r).ret /\ pc' = "done"
                  /\ UNCHANGED <<commit, pairs>>
             ELSE /\ commit' = Some(Default) /\ pairs' = r.pair.inner /\ pc' = "walk"
                  /\ UNCHANGED result
    /\ UNCHANGED <<commit_message, inner, footerq, stdout, message, reparsed,
                   typeVars, errorVars, callVars>>

AtMessagePair == pc = "walk" /\ inner = <<>> /\ footerq = <<>> /\ pairs # <<>>
AtSummaryPair == pc = "walk" /\ inner # <<>>

\* lib.rs:32-33: Rule::summary, the loop over its inner pairs begins.
VisitSummary ==
    /\ AtMessagePair /\ Head(pairs).rule = "summary"
    /\ inner' = Head(pairs).inner /\ pairs' = Tail(pairs)
    /\ UNCHANGED <<commit_message, pc, pest, footerq, commit, result, stdout,
                   message, reparsed, typeVars, errorVars, callVars>>

\* lib.rs:35
VisitCommitType ==
    /\ AtSummaryPair /\ Head(inner).rule = "commit_type"
    /\ commit' = Some(set_commit_type(commit[1], Head(inner)))
    /\ inner' = Tail(inner)
    /\ UNCHANGED <<commit_message, pc, pest, pairs, footerq, result, stdout,
                   message, reparsed, typeVars, errorVars, callVars>>

\* lib.rs:36
VisitScope ==
    /\ AtSummaryPair /\ Head(inner).rule = "scope"
    /\ commit' = Some(set_scope(commit[1], Head(inner)))
    /\ inner' = Tail(inner)
    /\ UNCHANGED <<commit_message, pc, pest, pairs, footerq, result, stdout,
                   message, reparsed, typeVars, errorVars, callVars>>

\* lib.rs:37
VisitSummaryContent ==
    /\ AtSummaryPair /\ Head(inner).rule = "summary_content"
    /\ commit' = Some(set_summary_content(commit[1], Head(inner)))
    /\ inner' = Tail(inner)
    /\ UNCHANGED <<commit_message, pc, pest, pairs, footerq, result, stdout,
                   message, reparsed, typeVars, errorVars, callVars>>

\* lib.rs:38
VisitBreakingChangeMark ==
    /\ AtSummaryPair /\ Head(inner).rule = "breaking_change_mark"
    /\ commit' = Some(set_breaking_change(commit[1], Head(inner)))
    /\ inner' = Tail(inner)
    /\ UNCHANGED <<commit_message, pc, pest, pairs, footerq, result, stdout,
                   message, reparsed, typeVars, errorVars, callVars>>

\* lib.rs:39: `other => println!("{:?}", other)`
VisitOtherSummaryPair ==
    /\ AtSummaryPair /\ Head(inner).rule \notin SummaryRules
    /\ stdout' = Append(stdout, Head(inner).rule)
    /\ inner' = Tail(inner)
    /\ UNCHANGED <<commit_message, pc, pest, pairs, footerq, commit, result,
                   message, reparsed, typeVars, errorVars, callVars>>

\* lib.rs:43
VisitBody ==
    /\ AtMessagePair /\ Head(pairs).rule = "body"
    /\ commit' = Some(set_commit_body(commit[1], Head(pairs)))
    /\ pairs' = Tail(pairs)
    /\ UNCHANGED <<commit_message, pc, pest, inner, footerq, result, stdout,
                   message, reparsed, typeVars, errorVars, callVars>>

\* lib.rs:44, commit.rs:161-162: Rule::footers, set_footers' loop begins.
VisitFooters ==
    /\ AtMessagePair /\ Head(pairs).rule = "footers"
    /\ footerq' = Head(pairs).inner /\ pairs' = Tail(pairs)
    /\ UNCHANGED <<commit_message, pc, pest, inner, commit, result, stdout,
                   message, reparsed, typeVars, errorVars, callVars>>

\* commit.rs:163: one turn of set_footers' loop.
SetFooter ==
    /\ pc = "walk" /\ footerq # <<>>
    /\ commit' = Some(set_footer(commit[1], Head(footerq)))
    /\ footerq' = Tail(footerq)
    /\ UNCHANGED <<commit_message, pc, pest, pairs, inner, result, stdout,
                   message, reparsed, typeVars, errorVars, callVars>>

\* lib.rs:45: `_ => ()`
VisitOtherPair ==
    /\ AtMessagePair /\ Head(pairs).rule \notin MessageRules
    /\ pairs' = Tail(pairs)
    /\ UNCHANGED <<commit_message, pc, pest, inner, footerq, commit, result, stdout,
                   message, reparsed, typeVars, errorVars, callVars>>

\* lib.rs:49: Ok(commit)
Return ==
    /\ pc = "walk" /\ pairs = <<>> /\ inner = <<>> /\ footerq = <<>>
    /\ result' = Ok(commit[1]) /\ pc' = "done"
    /\ UNCHANGED <<commit_message, pest, pairs, inner, footerq, commit, stdout,
                   message, reparsed, typeVars, errorVars, callVars>>

\* commit.rs:283: the caller serializes the commit it was given ...
Serialize ==
    /\ pc = "done" /\ result.tag = "Ok"
    /\ message' = Some(to_string(result.value[1])) /\ pc' = "printed"
    /\ UNCHANGED <<commit_message, pest, pairs, inner, footerq, commit, result,
                   stdout, reparsed, typeVars, errorVars, callVars>>

\* ... and parses the text again.
Reparse ==
    /\ pc = "printed"
    /\ reparsed' = parse(message[1]) /\ pc' = "reparsed"
    /\ UNCHANGED <<commit_message, pest, pairs, inner, footerq, commit, result,
                   stdout, message, typeVars, errorVars, callVars>>

Next ==
    \/ Match
    \/ VisitSummary \/ VisitCommitType \/ VisitScope \/ VisitSummaryContent
    \/ VisitBreakingChangeMark \/ VisitOtherSummaryPair
    \/ VisitBody \/ VisitFooters \/ SetFooter \/ VisitOtherPair
    \/ Return \/ Serialize \/ Reparse

Spec == Init /\ [][Next]_vars

(***************************************************************************)
(* parse_body on one text                                                  *)
(***************************************************************************)
InitBody ==
    /\ commit_message \in BodyTexts
    /\ pc = "body" /\ pest = None /\ pairs = <<>> /\ inner = <<>> /\ footerq = <<>>
    /\ commit = None /\ result = NoResult /\ stdout = <<>>
    /\ message = None /\ reparsed = NoResult
    /\ IdleType /\ IdleError
    /\ IdleCalls

ParseBody ==
    /\ pc = "body"
    /\ \E r \in BodyMatches(commit_message) :
          /\ pest' = Some(r)
          /\ result' = parse_body_matched(r)
    /\ pc' = "body_done"
    /\ UNCHANGED <<commit_message, pairs, inner, footerq, commit, stdout, message,
                   reparsed, typeVars, errorVars, callVars>>

NextBody == ParseBody

SpecBody == InitBody /\ [][NextBody]_vars

(***************************************************************************)
(* parse_summary on one summary line                                       *)
(***************************************************************************)
InitSummary ==
    /\ commit_message \in SummaryLines
    /\ pc = "summary" /\ pest = None /\ pairs = <<>> /\ inner = <<>> /\ footerq = <<>>
    /\ commit = None /\ result = NoResult /\ stdout = <<>>
    /\ message = None /\ reparsed = NoResult
    /\ IdleType /\ IdleError
    /\ IdleCalls

ParseSummary ==
    /\ pc = "summary"
    /\ \E r \in SummaryMatches(commit_message) :
          /\ pest' = Some(r)
          /\ result' = parse_summary_matched(r)
    /\ pc' = "summary_done"
    /\ UNCHANGED <<commit_message, pairs, inner, footerq, commit, stdout, message,
                   reparsed, typeVars, errorVars, callVars>>

NextSummary == ParseSummary

SpecSummary == InitSummary /\ [][NextSummary]_vars

(***************************************************************************)
(* parse called by several callers at once.  Each call has its own text,   *)
(* its own iterators over the match tree and its own commit (lib.rs:24-28, *)
(* locals of the call); the calls' steps interleave.  What println! writes *)
(* goes to the one standard output of the process.                         *)
(***************************************************************************)
NewCall(text) ==
    [commit_message |-> text, pc |-> "start", pairs |-> <<>>, inner |-> <<>>,
     footerq |-> <<>>, commit |-> None, result |-> NoResult]

\* A slip this code could have: the commit being built is one instance all
\* calls write to.
put_call_one_commit(cs, i, c) ==
    [j \in DOMAIN cs |-> IF j = i THEN c ELSE [cs[j] EXCEPT !.commit = c.commit]]

\* The locals of call i after one of its steps: no other call's change.
put_call(cs, i, c) == [cs EXCEPT ![i] = c]

InitCalls ==
    /\ calls \in [Callers -> { NewCall(t) : t \in CallTexts }]
    /\ IdleType /\ IdleError /\ IdleParse

\* lib.rs:24-28 in call i.
CallMatch(i) ==
    /\ calls[i].pc = "start"
    /\ \E r \in MatchTrees(calls[i].commit_message) :
          calls' = put_call(calls, i,
                     IF QuestionMark(r).returns
                     THEN [calls[i] EXCEPT !.result = QuestionMark(r).ret, !.pc = "done"]
                     ELSE [calls[i] EXCEPT !.commit = Some(Default),
                                           !.pairs = r.pair.inner, !.pc = "walk"])
    /\ UNCHANGED <<typeVars, errorVars, parseVars>>

\* lib.rs:34-40 in call i: one turn of the loop over the summary's pairs.
CallVisitSummaryPair(i) ==
    /\ calls[i].pc = "walk" /\ calls[i].inner # <<>>
    /\ calls' = put_call(calls, i,
                  [calls[i] EXCEPT
                     !.commit = Some(visit_summary_pair(calls[i].commit[1],
                                                        Head(calls[i].inner))),
                     !.inner = Tail(calls[i].inner)])
    /\ stdout' = IF Head(calls[i].inner).rule \in SummaryRules THEN stdout
                 ELSE Append(stdout, Head(calls[i].inner).rule)
    /\ UNCHANGED <<typeVars, errorVars, commit_message, pc, pest, pairs, inner,
                   footerq, commit, result, message, reparsed>>

\* commit.rs:163 in call i: one turn of set_footers' loop.
CallSetFooter(i) ==
    /\ calls[i].pc = "walk" /\ calls[i].inner = <<>> /\ calls[i].footerq # <<>>
    /\ calls' = put_call(calls, i,
                  [calls[i] EXCEPT
                     !.commit = Some(set_footer(calls[i].commit[1],
                                                Head(calls[i].footerq))),
                     !.footerq = Tail(calls[i].footerq)])
    /\ UNCHANGED <<typeVars, errorVars, parseVars>>

\* lib.rs:30-46 in call i: one turn of the loop over the message's pairs.
CallVisitPair(i) ==
    /\ calls[i].pc = "walk" /\ calls[i].inner = <<>> /\ calls[i].footerq = <<>>
    /\ calls[i].pairs # <<>>
    /\ calls' = put_call(calls, i,
                  CASE Head(calls[i].pairs).rule = "summary" ->
                         [calls[i] EXCEPT !.inner = Head(calls[i].pairs).inner,
                                          !.pairs = Tail(calls[i].pairs)]
                    [] Head(calls[i].pairs).rule = "body" ->
                         [calls[i] EXCEPT
                            !.commit = Some(set_commit_body(calls[i].commit[1],
                                                            Head(calls[i].pairs))),
                            !.pairs = Tail(calls[i].pairs)]
                    [] Head(calls[i].pairs).rule = "footers" ->
                         [calls[i] EXCEPT !.footerq = Head(calls[i].pairs).inner,
                                          !.pairs = Tail(calls[i].pairs)]
                    [] OTHER -> [calls[i] EXCEPT !.pairs = Tail(calls[i].pairs)])
    /\ UNCHANGED <<typeVars, errorVars, parseVars>>

\* lib.rs:49 in call i.
CallReturn(i) ==
    /\ calls[i].pc = "walk" /\ calls[i].inner = <<>> /\ calls[i].footerq = <<>>
    /\ calls[i].pairs = <<>>
    /\ calls' = put_call(calls, i,
                  [calls[i] EXCEPT !.result = Ok(calls[i].commit[1]), !.pc = "done"])
    /\ UNCHANGED <<typeVars, errorVars, parseVars>>

NextCalls ==
    \E i \in Callers :
        \/ CallMatch(i) \/ CallVisitSummaryPair(i) \/ CallSetFooter(i)
        \/ CallVisitPair(i) \/ CallReturn(i)

SpecCalls == InitCalls /\ [][NextCalls]_vars

(***************************************************************************)
(* to_string on one commit                                                 *)
(***************************************************************************)
InitToString ==
    /\ commit \in { Some(c) : c \in Commits }
    /\ pc = "commit" /\ commit_message = <<>> /\ pest = None /\ pairs = <<>>
    /\ inner = <<>> /\ footerq = <<>> /\ result = NoResult /\ stdout = <<>>
    /\ message = None /\ reparsed = NoResult
    /\ IdleType /\ IdleError /\ IdleCalls

Write ==
    /\ pc = "commit"
    /\ message' = Some(to_string(commit[1])) /\ pc' = "written"
    /\ UNCHANGED <<commit_message, pest, pairs, inner, footerq, commit, result,
                   stdout, reparsed, typeVars, errorVars, callVars>>

NextToString == Write

SpecToString == InitToString /\ [][NextToString]_vars

\* The walk in steps reaches what parse computes in one call.
StepsAgreeWithParse ==
    pc \in {"done", "printed", "reparsed"} => result = parse(commit_message)

(***************************************************************************)
(* Properties of parse                                                     *)
(***************************************************************************)
Returned == pc \in {"done", "printed", "reparsed"}
Parsed == Returned /\ result.tag = "Ok"

\* The match tree of the message, its summary's pairs and its footer pairs.
Tree == pest[1].pair
SummaryPairsOf(tree) == tree.inner[1].inner
FooterPairsOf(tree) ==
    LET fs == SelectSeq(tree.inner, LAMBDA x : x.rule = "footers")
    IN IF fs = <<>> THEN <<>> ELSE fs[1].inner
InnerOf(pair, rule) == SelectSeq(pair.inner, LAMBDA x : x.rule = rule)[1]

MarkerInSummary ==
    \E i \in DOMAIN SummaryPairsOf(Tree) :
        /\ SummaryPairsOf(Tree)[i].rule = "breaking_change_mark"
        /\ SummaryPairsOf(Tree)[i].str = <<"!">>

BreakingFooterParsed ==
    \E i \in DOMAIN result.value[1].footers :
        result.value[1].footers[i].token \in {BREAKING_CHANGE, BREAKING_CHANGE_DASH}

C2_ExactlyOneOutcome ==
    /\ ~Returned => result = NoResult
    /\ Returned =>
        /\ result.tag \in {"Ok", "Err"}
        /\ (result.tag = "Ok") <=> (result.value # None)
        /\ (result.tag = "Err") <=> (result.error # None)
        /\ (result.tag = "Err") <=> ~pest[1].ok
        /\ ~pest[1].ok =>
            /\ commit = None /\ pairs = <<>> /\ inner = <<>> /\ footerq = <<>>
            /\ result.error[1].inner = pest[1].error
            /\ result.error[1].kind \in ParseErrorKind
        /\ pest[1].ok => result.value = commit

\* A grammar failure answered with an error and nothing else.
C2_Witness ==
    /\ pc = "done" /\ result.tag = "Err" /\ result.value = None /\ commit = None
    /\ result.error[1].kind = "MissingSeparator"

\* C8: the footers of a parsed commit are the footer matches of the message,
\* one entry for each, in the order of the matches in the text, a token as
\* often as it was matched.
C8_FootersOnePerMatchInOrder ==
    Parsed =>
        LET fp == FooterPairsOf(Tree)
            fs == result.value[1].footers
        IN /\ Len(fs) = Len(fp)
           /\ \A i \in DOMAIN fp :
                /\ fs[i].token = InnerOf(fp[i], "footer_token").str
                /\ fs[i].content = InnerOf(fp[i], "footer_content").str
           /\ \A i, j \in DOMAIN fp : i < j => fp[i].start < fp[j].start

\* Two footers with the same token, both kept.
C8_Witness ==
    /\ Parsed /\ Len(result.value[1].footers) = 2
    /\ result.value[1].footers[1].token = result.value[1].footers[2].token
    /\ result.value[1].footers[1].content # result.value[1].footers[2].content

\* C7: a parsed commit, written with to_string and parsed again, is parsed
\* with success to an equal commit: type, scope, summary, body, footers in
\* order and the breaking-change flag.
C7_RoundTrip ==
    pc = "reparsed" => reparsed = Ok(result.value[1])

\* A breaking commit with scope, body and footer went round, by another text
\* than the one it was parsed from.
C7_Witness ==
    /\ pc = "reparsed" /\ reparsed.tag = "Ok"
    /\ reparsed.value[1].scope # None /\ reparsed.value[1].body # None
    /\ reparsed.value[1].footers # <<>>
    /\ reparsed.value[1].is_breaking_change
    /\ message[1] # commit_message

\* The separator form a footer match was introduced by.
SeparatorKindOf(pair) ==
    SeparatorAt(commit_message, InnerOf(pair, "token_separator").start)

\* C9: every footer of a parsed commit records the separator form that
\* introduced it (colon-space, space-hash or colon-newline), and its content
\* is the text after the separator.
C9_FooterRecordsSeparator ==
    Parsed =>
        \A i \in DOMAIN result.value[1].footers :
            LET f == result.value[1].footers[i]
                m == FooterPairsOf(Tree)[i]
            IN /\ "token_separator" \in DOMAIN f
               /\ f.token_separator = SeparatorKindOf(m)
               /\ f.token_separator \in {"Colon", "Hash", "ColonWithNewLine"}
               /\ f.content = InnerOf(m, "footer_content").str

\* A line starts at p: p follows a line break.
LineStartAt(text, p) == p > 1 /\ IsLineBreak(At(text, p - 1))

\* C10: the content of a footer is the text from its separator on, over as
\* many lines as there are, up to the end of input or up to the next line
\* that begins a footer token followed by a separator; no line within the
\* content begins such a pair, and that next line begins the next footer.
C10_ContentRunsToNextFooter ==
    Parsed =>
        LET fp == FooterPairsOf(Tree)
            fs == result.value[1].footers
            text == commit_message
        IN \A i \in DOMAIN fp :
            LET c == InnerOf(fp[i], "footer_content")
                from == PairEnd(InnerOf(fp[i], "token_separator"))
                to == PairEnd(c)
            IN /\ c.start = from
               /\ i \in DOMAIN fs /\ fs[i].content = Slice(text, from, to)
               /\ \A p \in from..(to - 1) :
                    LineStartAt(text, p) => ~FooterStartAt(text, p)
               /\ \/ to = Len(text) + 1
                  \/ /\ i + 1 \in DOMAIN fp
                     /\ fp[i + 1].start = SkipNewlines(text, to)
                     /\ LineStartAt(text, fp[i + 1].start)
                     /\ FooterStartAt(text, fp[i + 1].start)

\* A footer whose content runs over two lines and ends at the next footer.
C10_Witness ==
    /\ Parsed /\ Len(result.value[1].footers) = 2
    /\ \E k \in DOMAIN result.value[1].footers[1].content :
           result.value[1].footers[1].content[k] = NL
    /\ result.value[1].footers[2].content = <<"w">>

(***************************************************************************)
(* Properties of ParseError::from                                          *)
(***************************************************************************)
Classified == parse_error # None

\* The six rules of the precedence list, each with its kind.
Precedence ==
    << <<"type_separator", "MissingSeparator">>,
       <<"no_parenthesis", "UnexpectedParenthesis">>,
       <<"no_whitespace", "UnexpectedWhitespaceOrNewLine">>,
       <<"whitespace_terminal", "MissingWhiteSpace">>,
       <<"scope_content", "MalformedScope">>,
       <<"token_separator", "MalformedOrUnexpectedFooterSeparator">> >>

NoneOfTheSix(e) == \A i \in DOMAIN Precedence : Precedence[i][1] \notin e.positives

\* C3: the kind of a grammar failure is the kind of the earliest rule of the
\* precedence list that its expected-rule set contains, whatever later rules
\* of the list the set contains too.
C3_FirstMatchWins ==
    (Classified /\ pest_error.variant = "ParsingError") =>
        \A i \in DOMAIN Precedence :
            ( /\ Precedence[i][1] \in pest_error.positives
              /\ \A j \in 1..(i - 1) : Precedence[j][1] \notin pest_error.positives )
            => parse_error[1].kind = Precedence[i][2]

\* A set with three rules of the list, decided by the earliest of them.
C3_Witness ==
    /\ Classified
    /\ {"no_whitespace", "whitespace_terminal", "token_separator"} \subseteq pest_error.positives
    /\ "type_separator" \notin pest_error.positives
    /\ "no_parenthesis" \notin pest_error.positives
    /\ parse_error[1].kind = "UnexpectedWhitespaceOrNewLine"

\* C4, as the specification states it: the kind is one of seven, and Other
\* for every failure that expects none of the six rules.
C4_SevenKinds ==
    Classified =>
        /\ parse_error[1].kind \in ParseErrorKind \ {"DescriptionStartingWithUppercase"}
        /\ NoneOfTheSix(pest_error) => parse_error[1].kind = "Other"

\* C4: the kind is one of eight; a failure that expects none of the six rules
\* is DescriptionStartingWithUppercase when it expects the summary content
\* and Other when it does not, and a custom error is Other.
C4_EightKinds ==
    Classified =>
        /\ parse_error[1].kind \in ParseErrorKind
        /\ parse_error[1].inner = pest_error
        /\ pest_error.variant = "CustomError" => parse_error[1].kind = "Other"
        /\ (pest_error.variant = "ParsingError" /\ NoneOfTheSix(pest_error)) =>
            parse_error[1].kind =
                IF "summary_content" \in pest_error.positives
                THEN "DescriptionStartingWithUppercase"
                ELSE "Other"
        /\ parse_error[1].kind \in {"Other", "DescriptionStartingWithUppercase"} =>
            NoneOfTheSix(pest_error)

\* A failure that expects the summary content and none of the six rules.
C4_Witness ==
    /\ Classified /\ NoneOfTheSix(pest_error)
    /\ "summary_content" \in pest_error.positives
    /\ parse_error[1].kind = "DescriptionStartingWithUppercase"

\* C20: a custom error of the grammar engine is classified Other whatever
\* message and position it carries, and a classified error holds the grammar
\* failure it was made from, position and expected rules included, unchanged.
C20_CustomIsOtherAndInnerKept ==
    Classified =>
        /\ pest_error.variant = "CustomError" => parse_error[1].kind = "Other"
        /\ parse_error[1].inner.variant = pest_error.variant
        /\ parse_error[1].inner.pos = pest_error.pos
        /\ parse_error[1].inner.positives = pest_error.positives
        /\ parse_error[1].inner.message = pest_error.message

\* A custom error whose message names a rule of the precedence list, at a
\* position other than the start.
C20_Witness ==
    /\ Classified
    /\ pest_error = CustomError("type_separator", MaxErrPos)
    /\ parse_error[1].kind = "Other"
    /\ parse_error[1].inner = pest_error

\* A grammar failure kept whole beside a kind other than Other.
C20_WitnessParsingError ==
    /\ Classified
    /\ pest_error = ParsingError({"token_separator"}, MaxErrPos)
    /\ parse_error[1].kind = "MalformedOrUnexpectedFooterSeparator"
    /\ parse_error[1].inner = pest_error

(***************************************************************************)
(* Properties of CommitType::from                                          *)
(***************************************************************************)
BothConverted == type1 # None /\ type2 # None

\* Two characters, two tokens that differ in letter case at most.
SameCharIgnoringCase(a, b) ==
    a = b \/ \E i \in DOMAIN AsciiUpper :
                {a, b} = {AsciiUpper[i], AsciiLower[i]}
SameIgnoringCase(s, t) ==
    Len(s) = Len(t) /\ \A i \in DOMAIN s : SameCharIgnoringCase(s[i], t[i])

\* C5: a token that is a standard type written in any letter case yields
\* that type's variant, so two tokens that differ in letter case only, one
\* of them yielding a standard variant, yield the same variant.
C5_CaseInsensitive ==
    BothConverted =>
        /\ \A i \in DOMAIN Keywords :
            SameIgnoringCase(token1, Keywords[i]) => type1[1] = Standard(StandardTags[i])
        /\ (SameIgnoringCase(token1, token2) /\ type1[1].tag # "Custom") =>
            type2[1] = type1[1]

\* `Feat` and `feat` are both Feature.
C5_Witness ==
    /\ BothConverted
    /\ token1 = <<"F","e","a","t">> /\ token2 = kw_feat
    /\ type1[1] = Standard("Feature") /\ type2[1] = Standard("Feature")

\* C6: a token that is no standard type in any letter case becomes Custom
\* with the token as it was written, letter case included.
C6_CustomKeepsOriginalText ==
    (type1 # None /\ \A i \in DOMAIN Keywords : ~SameIgnoringCase(token1, Keywords[i])) =>
        type1[1] = Custom(token1)

\* C25: the type a token is classified as, written with as_ref and classified
\* again, is the same type; a standard variant is written as its keyword, and
\* its keyword is classified as that variant.
C25_AsRefThenFromIsStable ==
    /\ type1 # None => CommitType_from(CommitType_as_ref(type1[1])) = type1[1]
    /\ (BothConverted /\ token2 = CommitType_as_ref(type1[1])) => type2 = type1
    /\ type1 # None =>
        \A i \in DOMAIN Keywords :
            /\ type1[1] = Standard(StandardTags[i]) =>
                 CommitType_as_ref(type1[1]) = Keywords[i]
            /\ token1 = Keywords[i] => type1[1] = Standard(StandardTags[i])

\* `DOcs` is Documentation, written `docs`, which is Documentation again.
C25_Witness ==
    /\ BothConverted
    /\ token1 = <<"D", "O", "c", "s">> /\ type1[1] = Standard("Documentation")
    /\ token2 = CommitType_as_ref(type1[1]) /\ token2 = kw_docs
    /\ type2 = type1

\* `Wip` is a custom type, written `wip`, which is the same custom type.
C25_WitnessCustom ==
    /\ BothConverted
    /\ token1 = <<"W", "i", "p">> /\ type1[1].tag = "Custom"
    /\ token2 = CommitType_as_ref(type1[1]) /\ token2 # token1
    /\ type2 = type1

(***************************************************************************)
(* Properties of the footers and of the free text                          *)
(***************************************************************************)
\* Where the text of the footer match i stops being its own: at the start of
\* the next footer match, or at the end of input.
NextFooterStart(i) ==
    IF i + 1 \in DOMAIN FooterPairsOf(Tree)
    THEN FooterPairsOf(Tree)[i + 1].start
    ELSE Len(commit_message) + 1

\* The text s holds a colon followed by a space.
HasColonSpace(s) == \E k \in 1..(Len(s) - 1) : s[k] = ":" /\ s[k + 1] = " "

\* C11: a footer introduced by a colon and a newline has as its content the
\* whole text from the line after the colon up to the next footer match or
\* the end of input, the line breaks before that next footer left out: every
\* line in between, one with a colon and a space inside included, is in it.
C11_BlockFooterAbsorbsLines ==
    Parsed =>
        \A i \in DOMAIN FooterPairsOf(Tree) :
            SeparatorKindOf(FooterPairsOf(Tree)[i]) = "ColonWithNewLine" =>
                LET text == commit_message
                    from == PairEnd(InnerOf(FooterPairsOf(Tree)[i], "token_separator"))
                    next == NextFooterStart(i)
                    content == result.value[1].footers[i].content
                IN /\ from + Len(content) <= next
                   /\ content = Slice(text, from, from + Len(content))
                   /\ SkipNewlines(text, from + Len(content)) = next
                      \/ from + Len(content) = next
                   /\ \A p \in from..(next - 1) :
                        ~IsLineBreak(text[p]) => p < from + Len(content)

\* A block footer that took two lines, both with a colon and a space inside,
\* and stopped at the footer after them.
C11_Witness ==
    /\ Parsed /\ Len(result.value[1].footers) = 2
    /\ result.value[1].footers[1].token = <<"k">>
    /\ result.value[1].footers[1].content =
           <<"-", " ", "d", ":", " ", "e", NL, " ", "i", ":", " ", "j">>
    /\ HasColonSpace(result.value[1].footers[1].content)
    /\ result.value[1].footers[2].token = <<"a">>

\* A line of the text starts at p, after the summary line.
LineStarts(text) ==
    { p \in 2..Len(text) : IsLineBreak(text[p - 1]) /\ ~IsLineBreak(text[p]) }

\* Where the first footer separator of the line starting at p is; 0 for none.
FirstSeparatorOn(text, p) ==
    LET ks == { k \in (p + 1)..(LineEnd(text, p) - 1) : SeparatorAt(text, k) # "" }
    IN IF ks = {} THEN 0 ELSE CHOOSE k \in ks : \A j \in ks : k <= j

\* The line starting at p looks like a footer, but what stands before its
\* first separator holds whitespace and is not BREAKING CHANGE.
LooksLikeFooterAt(text, p) ==
    LET k == FirstSeparatorOn(text, p) IN
    /\ k > 0
    /\ \E j \in p..(k - 1) : IsSpace(text[j])
    /\ Slice(text, p, k) # BREAKING_CHANGE

\* The free-text pairs of the match tree: the body and the footers' contents.
FreeTextPairs(tree) ==
    { tree.inner[i] : i \in { j \in DOMAIN tree.inner : tree.inner[j].rule = "body" } }
    \cup { InnerOf(FooterPairsOf(tree)[i], "footer_content") : i \in DOMAIN FooterPairsOf(tree) }

\* C12: a line that looks like a footer, with whitespace in its token part
\* (the lower-case `breaking change` included), makes no parse fail and
\* begins no footer: it lies in the body of the commit, or in the content of
\* the footer before it, and the breaking-change flag is never owed to it.
C12_LookalikeLineIsFreeText ==
    Returned =>
        /\ ( /\ summary_rule(commit_message).ok
             /\ \E p \in LineStarts(commit_message) : LooksLikeFooterAt(commit_message, p) )
           => result.tag = "Ok"
        /\ Parsed =>
            /\ \A p \in LineStarts(commit_message) :
                LooksLikeFooterAt(commit_message, p) =>
                    /\ \A i \in DOMAIN FooterPairsOf(Tree) : FooterPairsOf(Tree)[i].start # p
                    /\ \E t \in FreeTextPairs(Tree) :
                        /\ t.start <= p /\ LineEnd(commit_message, p) <= PairEnd(t)
                        /\ \/ t.rule = "body" /\ result.value[1].body = Some(t.str)
                           \/ \E i \in DOMAIN result.value[1].footers :
                                /\ t.rule = "footer_content"
                                /\ InnerOf(FooterPairsOf(Tree)[i], "footer_content") = t
                                /\ result.value[1].footers[i].content = t.str
            /\ (result.value[1].is_breaking_change /\ ~MarkerInSummary) =>
                \E i \in DOMAIN FooterPairsOf(Tree) :
                    /\ ~LooksLikeFooterAt(commit_message, FooterPairsOf(Tree)[i].start)
                    /\ result.value[1].footers[i].token \in {BREAKING_CHANGE, BREAKING_CHANGE_DASH}

\* `breaking change: o` after a first body line: body text, before a footer,
\* and the commit is not breaking.
C12_Witness ==
    /\ Parsed /\ ~result.value[1].is_breaking_change
    /\ result.value[1].body =
           Some(<<"b", " ", "c", ":", " ", "d", NL>>
                \o to_ascii_lowercase(BREAKING_CHANGE) \o <<":", " ", "o">>)
    /\ \E p \in LineStarts(commit_message) : LooksLikeFooterAt(commit_message, p)

(***************************************************************************)
(* Properties of the summary line                                          *)
(***************************************************************************)
\* Read off the text alone: where the type token ends, whether a scope in
\* parentheses follows it, and where the type separator has to stand, after
\* the type, the scope if there is one, and the marker if there is one.
TypeEndOf(text) == CommitTypeEnd(text, 1)
ScopeOpens(text) == At(text, TypeEndOf(text)) = "("
ScopeStopOf(text) == ScopeContentEnd(text, TypeEndOf(text) + 1)
ScopeCloses(text) == ScopeOpens(text) /\ At(text, ScopeStopOf(text)) = ")"
AfterScopeOf(text) == IF ScopeCloses(text) THEN ScopeStopOf(text) + 1 ELSE TypeEndOf(text)
HasMarker(text) == At(text, AfterScopeOf(text)) = "!"
SeparatorPosOf(text) == IF HasMarker(text) THEN AfterScopeOf(text) + 1 ELSE AfterScopeOf(text)
PrefixWellFormed(text) == TypeEndOf(text) > 1 /\ (ScopeOpens(text) => ScopeCloses(text))

Failed(kind) == Returned /\ result.tag = "Err" /\ result.error[1].kind = kind

\* C13: when the type, with the scope and the marker if there are any, is
\* not followed by a colon the parse fails with MissingSeparator, and when
\* the colon is not followed by a space it fails with MissingWhiteSpace.
C13_SeparatorEnforced ==
    (Returned /\ PrefixWellFormed(commit_message)) =>
        LET sep == SeparatorPosOf(commit_message) IN
        /\ At(commit_message, sep) # ":" => Failed("MissingSeparator")
        /\ (At(commit_message, sep) = ":" /\ At(commit_message, sep + 1) # " ")
            => Failed("MissingWhiteSpace")

\* `feat(s)!:x`: scope and marker before a colon without its space.
C13_Witness ==
    /\ Failed("MissingWhiteSpace")
    /\ ScopeCloses(commit_message) /\ HasMarker(commit_message)
    /\ At(commit_message, SeparatorPosOf(commit_message)) = ":"

ScopePairsOf(tree) == SelectSeq(SummaryPairsOf(tree), LAMBDA x : x.rule = "scope")
BetweenParentheses(pair) == SubSeq(pair.str, 2, Len(pair.str) - 1)

\* C15: the scope of the commit is never the empty text: a scope pair with
\* nothing between its parentheses, with an empty inner pair or with none,
\* leaves the scope absent; any other scope pair sets the scope to the text
\* between its parentheses, and without a scope pair there is no scope.
C15_ScopeNeverEmpty ==
    /\ commit # None => commit[1].scope # Some(<<>>)
    /\ Parsed =>
        /\ result.value[1].scope # Some(<<>>)
        /\ result.value[1].scope =
            IF ScopePairsOf(Tree) = <<>> THEN None
            ELSE IF BetweenParentheses(ScopePairsOf(Tree)[1]) = <<>> THEN None
            ELSE Some(BetweenParentheses(ScopePairsOf(Tree)[1]))

\* `fix(): x`, matched with a scope pair that has no inner pair.
C15_Witness ==
    /\ Parsed /\ result.value[1].scope = None
    /\ ScopePairsOf(Tree) # <<>> /\ ScopePairsOf(Tree)[1].str = <<"(", ")">>
    /\ ScopePairsOf(Tree)[1].inner = <<>>

\* `fix(): x`, matched with a scope pair that has an empty inner pair.
C15_WitnessEmptyInner ==
    /\ Parsed /\ result.value[1].scope = None
    /\ ScopePairsOf(Tree) # <<>> /\ ScopePairsOf(Tree)[1].inner # <<>>
    /\ ScopePairsOf(Tree)[1].inner[1].str = <<>>

\* The body pair of the match tree, if the message has one.
BodyPairsOf(tree) == SelectSeq(tree.inner, LAMBDA x : x.rule = "body")

\* C16: the body of the commit is never the empty text: it is the text of
\* the body pair when that text is not empty, and absent when the text is
\* empty (footers right after the summary) or when there is no body pair.
C16_BodyNeverEmpty ==
    /\ commit # None => commit[1].body # Some(<<>>)
    /\ Parsed =>
        /\ result.value[1].body # Some(<<>>)
        /\ result.value[1].body =
            IF BodyPairsOf(Tree) = <<>> THEN None
            ELSE IF BodyPairsOf(Tree)[1].str = <<>> THEN None
            ELSE Some(BodyPairsOf(Tree)[1].str)

\* Footers right after the summary: an empty body pair and no body.
C16_Witness ==
    /\ Parsed /\ result.value[1].body = None /\ result.value[1].footers # <<>>
    /\ BodyPairsOf(Tree) # <<>> /\ BodyPairsOf(Tree)[1].str = <<>>

(***************************************************************************)
(* Properties of parse_body                                                *)
(***************************************************************************)
BodyReturned == pc = "body_done"

\* C17: parse_body gives an absent body for a text that is empty or only
\* whitespace, gives the text itself as the body for free text, and fails
\* with MalformedOrUnexpectedFooterSeparator for a text that begins with a
\* footer token and separator.
C17_ParseBody ==
    BodyReturned =>
        /\ IsWhitespaceOnly(commit_message) => result = Ok(None)
        /\ (IsFreeText(commit_message) /\ ~IsWhitespaceOnly(commit_message))
            => result = Ok(Some(commit_message))
        /\ FooterStartAt(commit_message, 1) =>
            /\ result.tag = "Err" /\ result.value = None
            /\ result.error[1].kind = "MalformedOrUnexpectedFooterSeparator"

\* Two footer lines given as a body: the failure of tests/body.rs.
C17_Witness ==
    /\ BodyReturned
    /\ commit_message = <<"a", ":", " ", "v", NL, "a", " ", "#", "w">>
    /\ result.tag = "Err"
    /\ result.error[1].kind = "MalformedOrUnexpectedFooterSeparator"

(***************************************************************************)
(* Properties of parse_summary                                             *)
(***************************************************************************)
SummaryReturned == pc = "summary_done"

TypeTokenOf(text) == Slice(text, 1, TypeEndOf(text))

\* C19: the commit type of a parsed commit is the classification of the type
\* token the input begins with, whatever type the default commit has, and an
\* input that begins with no type token is not parsed.
C19_TypeIsClassifiedToken ==
    Returned =>
        /\ result.tag = "Ok" =>
            /\ TypeTokenOf(commit_message) # <<>>
            /\ InnerOf(Tree.inner[1], "commit_type").str = TypeTokenOf(commit_message)
            /\ result.value[1].commit_type = CommitType_from(TypeTokenOf(commit_message))
        /\ TypeTokenOf(commit_message) = <<>> => result.tag = "Err"

\* A parsed commit whose type is not the default's.
C19_Witness ==
    /\ Parsed
    /\ TypeTokenOf(commit_message) = <<"w", "I", "p">>
    /\ result.value[1].commit_type = Custom(<<"w", "i", "p">>)
    /\ result.value[1].commit_type # Default.commit_type

\* An input with no type token, rejected.
C19_WitnessNoType ==
    /\ Returned /\ TypeTokenOf(commit_message) = <<>>
    /\ result.tag = "Err" /\ result.value = None

(***************************************************************************)
(* Properties of concurrent calls                                          *)
(***************************************************************************)
CallReturned(i) == calls # <<>> /\ calls[i].pc = "done"

C21_WitnessDifferentTexts ==
    /\ CallReturned(1) /\ CallReturned(2)
    /\ calls[1].result.tag = "Err" /\ calls[2].result.tag = "Ok"
    /\ calls[2].result.value[1].is_breaking_change

(***************************************************************************)
(* Properties of the walk, step by step                                    *)
(***************************************************************************)
Fields == {"commit_type", "scope", "summary", "body", "footers", "is_breaking_change"}

\* The node the next step of the walk visits, when there is one.
AtNode == pc = "walk" /\ (inner # <<>> \/ footerq # <<>> \/ pairs # <<>>)
Node == IF inner # <<>> THEN Head(inner)
        ELSE IF footerq # <<>> THEN Head(footerq)
        ELSE Head(pairs)

\* The fields a node stands for.  A footer stands for its entry of the footer
\* list and, with it, for the flag its token may raise; the summary and the
\* footer block stand for their parts, which are visited after them.
FieldsOf(rule) ==
    CASE rule = "commit_type" -> {"commit_type"}
      [] rule = "scope" -> {"scope"}
      [] rule = "breaking_change_mark" -> {"is_breaking_change"}
      [] rule = "summary_content" -> {"summary"}
      [] rule = "body" -> {"body"}
      [] rule = "footer" -> {"footers", "is_breaking_change"}
      [] OTHER -> {}

Handled(rule) == FieldsOf(rule) # {} \/ rule \in {"summary", "footers"}

\* C22: a step of the walk changes no field of the commit but those its node
\* stands for and writes nothing anywhere else; on a node of a rule the
\* walker does not handle it changes nothing at all.
C22_WalkerChangesOnlyTheNodesField ==
    [][ AtNode =>
          /\ commit' # None
          /\ \A f \in Fields \ FieldsOf(Node.rule) : commit'[1][f] = commit[1][f]
          /\ stdout' = stdout
          /\ ~Handled(Node.rule) => commit' = commit ]_vars

(***************************************************************************)
(* Properties of to_string                                                 *)
(***************************************************************************)
Written == pc = "written"

\* Where the first colon of a text is; the character before it.
FirstColon(text) == CHOOSE i \in DOMAIN text :
                        text[i] = ":" /\ \A j \in 1..(i - 1) : text[j] # ":"
MarkerWritten(text) == At(text, FirstColon(text) - 1) = "!"

HasBreakingFooter(c) ==
    \E i \in DOMAIN c.footers : c.footers[i].token \in {BREAKING_CHANGE, BREAKING_CHANGE_DASH}

\* The lines `token: content` of a footer list, in its order, a line break
\* between two of them.
RECURSIVE FooterLines(_)
FooterLines(fs) ==
    IF fs = <<>> THEN <<>>
    ELSE Head(fs).token \o <<":", " ">> \o Head(fs).content
         \o (IF Tail(fs) = <<>> THEN <<>> ELSE <<NL>> \o FooterLines(Tail(fs)))

EndsWith(text, end) ==
    /\ Len(text) >= Len(end)
    /\ SubSeq(text, Len(text) - Len(end) + 1, Len(text)) = end

\* C23: to_string writes `!` before the colon exactly when the commit is
\* breaking and none of its footers has a breaking-change token, so never
\* when one has; the footers are the end of the text, after one blank line,
\* one line `token: content` each, in the order of the list.
C23_MarkerAndFootersWritten ==
    Written =>
        /\ MarkerWritten(message[1])
            <=> (commit[1].is_breaking_change /\ ~HasBreakingFooter(commit[1]))
        /\ HasBreakingFooter(commit[1]) => ~MarkerWritten(message[1])
        /\ commit[1].footers # <<>> =>
            /\ EndsWith(message[1], <<NL, NL>> \o FooterLines(commit[1].footers))
            /\ ~EndsWith(message[1], <<NL, NL, NL>> \o FooterLines(commit[1].footers))

\* commit_to_with_footer_only_string_ok: a breaking commit with a
\* breaking-change footer is written without the marker.
C23_Witness ==
    /\ Written
    /\ commit[1].is_breaking_change /\ commit[1].body = None /\ commit[1].scope = None
    /\ commit[1].footers = << [token |-> BREAKING_CHANGE, content |-> <<"m">>],
                              [token |-> <<"a">>, content |-> <<"v">>] >>
    /\ message[1] = kw_chore \o <<":", " ", "x", NL, NL>> \o BREAKING_CHANGE
                    \o <<":", " ", "m", NL, "a", ":", " ", "v">>

\* commit_with_body_only_and_breaking_change: a breaking commit with no
\* footer is written with the marker.
C23_WitnessMarker ==
    /\ Written
    /\ commit[1].is_breaking_change /\ commit[1].footers = <<>> /\ commit[1].body # None
    /\ MarkerWritten(message[1])

\* C24: while one commit is built its is_breaking_change starts false and,
\* once true, stays true: no step of the walk, whatever it visits after the
\* marker or after a breaking-change footer, makes it false again.
C24_FlagIsMonotonic ==
    [][ /\ (commit = None /\ commit' # None) => ~commit'[1].is_breaking_change
        /\ (commit # None /\ commit[1].is_breaking_change)
            => (commit' # None /\ commit'[1].is_breaking_change) ]_vars

\* The marker raised the flag and a later footer that is not a breaking
\* change was added to the commit.
C24_Witness ==
    /\ pc = "walk" /\ commit # None
    /\ MarkerInSummary
    /\ commit[1].is_breaking_change
    /\ commit[1].footers # <<>>
    /\ \A i \in DOMAIN commit[1].footers :
          commit[1].footers[i].token \notin {BREAKING_CHANGE, BREAKING_CHANGE_DASH}

\* A breaking-change footer raised the flag and the footer after it is not a
\* breaking change.
C24_WitnessFooterThenFooter ==
    /\ pc = "walk" /\ commit # None
    /\ ~MarkerInSummary
    /\ commit[1].is_breaking_change
    /\ Len(commit[1].footers) = 2
    /\ commit[1].footers[1].token \in {BREAKING_CHANGE, BREAKING_CHANGE_DASH}
    /\ commit[1].footers[2].token \notin {BREAKING_CHANGE, BREAKING_CHANGE_DASH}

====
